---- MODULE Spec2Model ----
(***************************************************************************)
(* Model of the OAuth sign-in flow of fushigi_backend/routes/user.py:      *)
(* oauth_signin, verify_oauth_token, get_or_create_user and                *)
(* generate_session_token, running as concurrent requests against one      *)
(* PostgreSQL users table (psycopg, default READ COMMITTED isolation).     *)
(*                                                                         *)
(* Every request runs on a connection of its own (Depends(get_connection)); *)
(* the users table is unique on (provider, provider_user_id).              *)
(*                                                                         *)
(* Optional values are sets of at most one element: {} is None.            *)
(* Time is counted in whole seconds (the resolution of the iat/exp claims  *)
(* of an encoded JWT).                                                     *)
(***************************************************************************)
EXTENDS Integers, FiniteSets, Sequences, TLC

\* ------------------------------------------------------------------ bounds
NReq == 2
MaxClock == 1

Reqs == 1..NReq

\* ------------------------------------------------------- program constants
HTTP_200_OK == 200
HTTP_400_BAD_REQUEST == 400
HTTP_401_UNAUTHORIZED == 401
HTTP_500_INTERNAL_SERVER_ERROR == 500
SessionDays == 30

\* timedelta(days=d) in seconds
timedelta(d) == d * 86400

\* The provider table: one configured provider.
OAUTH_CONFIG ==
    [apple |-> [client_id |-> "tech.bunkbed.fushigi",
                issuer    |-> "https://appleid.apple.com",
                jwks_uri  |-> "https://appleid.apple.com/auth/keys"]]

\* Mutant: the lookup falls back to the apple entry.
OAUTH_CONFIG_get_default(provider) ==
    IF provider \in DOMAIN OAUTH_CONFIG THEN {OAUTH_CONFIG[provider]}
    ELSE {OAUTH_CONFIG.apple}

\* OAUTH_CONFIG.get(provider): {} when the provider is not a key.
OAUTH_CONFIG_get(provider) ==
    IF provider \in DOMAIN OAUTH_CONFIG THEN {OAUTH_CONFIG[provider]} ELSE {}

\* ------------------------------------------------------------------ inputs
NoneStr == "<None>"
Absent  == "<absent>"

Providers == {"apple", "google"}
ProviderUserIds == {"abc123", "xyz789"}
RequestEmails == {NoneStr}

\* Expiry claims: one in the past of every clock value, one in its future.
PastExp == 0 - 1
FutureExp == MaxClock + 1

\* An identity token, described by what jwt.decode and the claims registry
\* look at: whether it splits into a signed claim set, whether its signature
\* matches a key of the fetched key set, and its claims.
GoodToken ==
    [wellformed |-> TRUE, sig |-> "valid",
     aud |-> "tech.bunkbed.fushigi", iss |-> "https://appleid.apple.com",
     exp |-> FutureExp, email |-> NoneStr, sub |-> "abc123"]

IdentityTokens ==
    { GoodToken,
      [GoodToken EXCEPT !.sub = "xyz789", !.email = "tok@example.com"],
      [GoodToken EXCEPT !.aud = "com.other.app"],
      [GoodToken EXCEPT !.aud = Absent],
      [GoodToken EXCEPT !.iss = "https://evil.example.com"],
      [GoodToken EXCEPT !.iss = Absent],
      [GoodToken EXCEPT !.exp = PastExp],
      [GoodToken EXCEPT !.exp = PastExp, !.sig = "invalid"],
      [GoodToken EXCEPT !.sig = "invalid"],
      [GoodToken EXCEPT !.wellformed = FALSE] }

AuthRequests ==
    [provider : Providers, identity_token : IdentityTokens,
     provider_user_id : ProviderUserIds, email : RequestEmails]

\* The requests of the concurrent runs: sign-ins of the two identities with
\* a verifiable token, one with a forged signature, one for an unknown
\* provider.
ConcurrentRequests ==
    { [provider |-> "apple", identity_token |-> GoodToken,
       provider_user_id |-> "abc123", email |-> NoneStr],
      [provider |-> "apple",
       identity_token |-> [GoodToken EXCEPT !.sub = "xyz789", !.email = "tok@example.com"],
       provider_user_id |-> "xyz789", email |-> NoneStr],
      [provider |-> "apple", identity_token |-> [GoodToken EXCEPT !.sig = "invalid"],
       provider_user_id |-> "abc123", email |-> NoneStr],
      [provider |-> "google", identity_token |-> GoodToken,
       provider_user_id |-> "abc123", email |-> NoneStr] }

\* Sign-ins with verifiable tokens that differ in the email of the request
\* (None, empty, given) and in the email claim of the token.
EmailRequests ==
    [provider : {"apple"},
     identity_token : {GoodToken, [GoodToken EXCEPT !.email = "tok@example.com"]},
     provider_user_id : ProviderUserIds,
     email : {NoneStr, "", "req@example.com"}]

\* DatabaseErrors of psycopg other than the unique violation.
StoreErrors == {"server closed the connection unexpectedly",
                "canceling statement due to statement timeout"}

\* Outcome of GET jwks_uri followed by raise_for_status and .json()["keys"].
KeyFetchOutcomes == {"ok", "network_error", "bad_status", "bad_json"}

\* The process environment: JWT_SECRET_KEY unset ({}) or set.
Environments ==
    {[JWT_SECRET_KEY |-> {}], [JWT_SECRET_KEY |-> {"configured-secret"}]}

\* The surroundings of the concurrent runs of Spec: the key fetch answers,
\* the store raises one kind of DatabaseError, JWT_SECRET_KEY is set.  The
\* requests and their interleavings vary; SpecVaried varies the rest too.
SteadyKeyFetch == {"ok"}
SteadyStoreErrors == {"server closed the connection unexpectedly"}
SteadyEnvironments == {[JWT_SECRET_KEY |-> {"configured-secret"}]}

\* --------------------------------------------------------------- variables
VARIABLES
    users,      \* committed rows of the users table
    clock,      \* wall clock, seconds
    pc,         \* pc[r]: where request r stands in oauth_signin
    req,        \* req[r]: the AuthRequest of r, {} when the slot is idle
    claims,     \* claims[r]: user_claims of r ({} is None)
    tx,         \* tx[r]: the open transaction of r
    local,      \* local[r]: user_record / new_user_id / result of r
    resp,       \* resp[r]: the HTTP response of r
    steps,      \* history: steps of the handler r has entered, in order
    hist,       \* history: per-request facts (key fetched, rows written,
                \* cause of failure, requests answered before it arrived)
    firstId     \* history: id returned by the first sign-in per identity

vars == <<users, clock, pc, req, claims, tx, local, resp, steps, hist, firstId>>

\* -------------------------------------------------------- idle request slot
NoTx == [active |-> FALSE, now |-> 0, write |-> {}]
NoLocal == [user_record |-> {}, new_user_id |-> 0, user |-> {}]
NoResp == [status |-> 0, detail |-> "", user |-> {}, token |-> {}]
NoHist == [fetch |-> "", db |-> FALSE, wrote |-> FALSE, cause |-> "", after |-> {},
           secret |-> {}]

Identities == {<<p, u>> : p \in DOMAIN OAUTH_CONFIG, u \in ProviderUserIds}

Init ==
    /\ users = {}
    /\ clock = 0
    /\ pc = [r \in Reqs |-> "Idle"]
    /\ req = [r \in Reqs |-> {}]
    /\ claims = [r \in Reqs |-> {}]
    /\ tx = [r \in Reqs |-> NoTx]
    /\ local = [r \in Reqs |-> NoLocal]
    /\ resp = [r \in Reqs |-> NoResp]
    /\ steps = [r \in Reqs |-> <<>>]
    /\ hist = [r \in Reqs |-> NoHist]
    /\ firstId = [k \in Identities |-> {}]

\* The request held by slot r.
Request(r) == CHOOSE a \in req[r] : TRUE

\* raise HTTPException(status_code, detail)
HTTPException(status_code, detail) ==
    [status |-> status_code, detail |-> detail, user |-> {}, token |-> {}]

\* ------------------------------------------------------ verify_oauth_token
\* jwt.decode(identity_token, keys, claims_cls=JWTClaims, claims_options=...):
\* splits the token, verifies the signature against the key set and wraps
\* the payload in a JWTClaims object carrying claims_options.  The options
\* are only consulted by JWTClaims.validate(), which decode does not call.
\* {} stands for a raised DecodeError / BadSignatureError.
jwt_decode(identity_token, claims_options) ==
    IF ~identity_token.wellformed THEN {}
    ELSE IF identity_token.sig # "valid" THEN {}
    ELSE {[aud   |-> identity_token.aud,
           iss   |-> identity_token.iss,
           exp   |-> identity_token.exp,
           email |-> identity_token.email,
           sub   |-> identity_token.sub]}

\* verify_oauth_token(identity_token, config) under key-fetch outcome fetch:
\* any exception of the fetch or of the decode is caught and gives None.
verify_oauth_token(identity_token, config, fetch) ==
    IF fetch # "ok" THEN {}
    ELSE jwt_decode(identity_token,
                    [aud |-> [essential |-> TRUE, value |-> config.client_id],
                     iss |-> [essential |-> TRUE, value |-> config.issuer]])

\* ------------------------------------------------------------ oauth_signin
\* A request arrives and is parsed into an AuthRequest.  Slots are taken in
\* the order of arrival: slot r is used once the slots before it are.
ReceiveFrom(r, pool) ==
    /\ pc[r] = "Idle"
    /\ \A q \in 1..(r - 1) : pc[q] # "Idle"
    /\ \E a \in pool :
          req' = [req EXCEPT ![r] = {a}]
    /\ pc' = [pc EXCEPT ![r] = "ProviderLookup"]
    /\ steps' = [steps EXCEPT ![r] = <<"Received">>]
    /\ hist' = [hist EXCEPT ![r].after = {q \in Reqs : pc[q] \in {"Completed", "Failed"}}]
    /\ UNCHANGED <<users, clock, claims, tx, local, resp, firstId>>

Receive(r) == ReceiveFrom(r, ConcurrentRequests)

ReceiveAny(r) == ReceiveFrom(r, AuthRequests)

ReceiveEmail(r) == ReceiveFrom(r, EmailRequests)

\* provider_config = OAUTH_CONFIG.get(provider); 400 when there is none.
ProviderLookup(r) ==
    /\ pc[r] = "ProviderLookup"
    /\ IF OAUTH_CONFIG_get(Request(r).provider) = {}
       THEN /\ resp' = [resp EXCEPT ![r] =
                   HTTPException(HTTP_400_BAD_REQUEST, "Unsupported provider")]
            /\ pc' = [pc EXCEPT ![r] = "Failed"]
            /\ steps' = [steps EXCEPT ![r] = @ \o <<"ProviderLookup", "Failed">>]
       ELSE /\ resp' = resp
            /\ pc' = [pc EXCEPT ![r] = "TokenVerification"]
            /\ steps' = [steps EXCEPT ![r] = Append(@, "ProviderLookup")]
    /\ UNCHANGED <<users, clock, req, claims, tx, local, hist, firstId>>

\* user_claims = await verify_oauth_token(...); 401 when it is None.
TokenVerificationWith(r, outcomes) ==
    /\ pc[r] = "TokenVerification"
    /\ \E fetch \in outcomes :
         LET config == CHOOSE c \in OAUTH_CONFIG_get(Request(r).provider) : TRUE
             user_claims == verify_oauth_token(Request(r).identity_token, config, fetch)
         IN /\ hist' = [hist EXCEPT ![r].fetch = fetch]
            /\ claims' = [claims EXCEPT ![r] = user_claims]
            /\ IF user_claims = {}
               THEN /\ resp' = [resp EXCEPT ![r] =
                           HTTPException(HTTP_401_UNAUTHORIZED, "Invalid token")]
                    /\ pc' = [pc EXCEPT ![r] = "Failed"]
                    /\ steps' = [steps EXCEPT ![r] = @ \o <<"TokenVerification", "Failed">>]
               ELSE /\ resp' = resp
                    /\ pc' = [pc EXCEPT ![r] = "Select"]
                    /\ steps' = [steps EXCEPT ![r] = Append(@, "TokenVerification")]
    /\ UNCHANGED <<users, clock, req, tx, local, firstId>>

TokenVerification(r) == TokenVerificationWith(r, KeyFetchOutcomes)

\* ------------------------------------------------------- the users table
\* The unique constraint of the users table on (provider, provider_user_id).
UniqueViolation(table, row) ==
    \E u \in table : /\ u.provider = row.provider
                     /\ u.provider_user_id = row.provider_user_id

\* cur.fetchone(): one row of the result, or None.
fetchone(result) == IF result = {} THEN {{}} ELSE {{u} : u \in result}

\* Rows another open transaction has written and not yet committed.
PendingOfOthers(r) == UNION {{w.row : w \in tx[q].write} : q \in Reqs \ {r}}

\* uuid.uuid4(): an id no stored or pending row carries.
uuid4(r) ==
    LET used == {u.id : u \in users \cup PendingOfOthers(r)}
    IN CHOOSE i \in 1..(Cardinality(used) + 1) : i \notin used

\* bool(str) of an Optional[str]
Truthy(str) == str \notin {NoneStr, Absent, ""}

\* Mutant: the email claim of the token wins over the email of the request.
EmailArgument_claim_first(request_email, user_claims) ==
    IF Truthy(user_claims.email) THEN user_claims.email ELSE request_email

\* email=auth_request.email or user_claims.get("email")
EmailArgument(request_email, user_claims) ==
    IF Truthy(request_email) THEN request_email ELSE user_claims.email

\* Mutant: the INSERT leaves the email column out.
InsertedRow_no_email(id, provider, provider_user_id, email, now) ==
    [id |-> id, provider |-> provider, provider_user_id |-> provider_user_id,
     email |-> NoneStr, created_at |-> now, updated_at |-> now]

\* Mutant: the provider_user_id and email parameters of the INSERT swapped.
InsertedRow_swapped(id, provider, provider_user_id, email, now) ==
    [id |-> id, provider |-> provider, provider_user_id |-> email,
     email |-> provider_user_id, created_at |-> now, updated_at |-> now]

\* The row of the INSERT statement; CURRENT_TIMESTAMP is the start time of
\* the transaction.
InsertedRow(id, provider, provider_user_id, email, now) ==
    [id |-> id, provider |-> provider, provider_user_id |-> provider_user_id,
     email |-> email, created_at |-> now, updated_at |-> now]

\* Mutant: the UPDATE sets created_at as well.
UpdatedRow_recreated(row, now) == [row EXCEPT !.updated_at = now, !.created_at = now]

\* Mutant: the UPDATE leaves updated_at as it was.
UpdatedRow_stale(row, now) == row

\* UPDATE users SET updated_at = CURRENT_TIMESTAMP WHERE id = %(id)s
UpdatedRow(row, now) == [row EXCEPT !.updated_at = now]

\* ------------------------------------------------------ get_or_create_user
\* async with conn.transaction(): SELECT ... WHERE provider AND provider_user_id
TxSelect(r) ==
    /\ pc[r] = "Select"
    /\ LET a == Request(r)
           result == {u \in users : /\ u.provider = a.provider
                                    /\ u.provider_user_id = a.provider_user_id}
       IN \E user_record \in fetchone(result) :
            /\ local' = [local EXCEPT ![r].user_record = user_record]
            /\ pc' = [pc EXCEPT ![r] = IF user_record # {} THEN "Update" ELSE "Insert"]
    /\ tx' = [tx EXCEPT ![r] = [active |-> TRUE, now |-> clock, write |-> {}]]
    /\ hist' = [hist EXCEPT ![r].db = TRUE]
    /\ steps' = [steps EXCEPT ![r] = Append(@, "IdentityResolution")]
    /\ UNCHANGED <<users, clock, req, claims, resp, firstId>>

\* if user_record: UPDATE ... WHERE id; return user_record.  The UPDATE waits
\* for the row lock while another transaction holds an uncommitted write of
\* the row.
TxUpdate(r) ==
    /\ pc[r] = "Update"
    /\ LET user_record == CHOOSE u \in local[r].user_record : TRUE
           target == {u \in users : u.id = user_record.id}
       IN /\ ~\E w \in PendingOfOthers(r) : w.id = user_record.id
          /\ tx' = [tx EXCEPT ![r].write =
                       {[op |-> "update", row |-> UpdatedRow(u, tx[r].now)] : u \in target}]
          /\ local' = [local EXCEPT ![r].user = {user_record}]
    /\ pc' = [pc EXCEPT ![r] = "Commit"]
    /\ UNCHANGED <<users, clock, req, claims, resp, steps, hist, firstId>>

\* Mutant: a DatabaseError sends the request back to the lookup.
ExceptDatabaseError_retry(r, e) ==
    /\ tx' = [tx EXCEPT ![r] = NoTx]
    /\ pc' = [pc EXCEPT ![r] = "Select"]
    /\ UNCHANGED <<local, resp, hist, steps>>

\* A statement raised DatabaseError e: the transaction block rolls back and
\* "except DatabaseError as e" raises HTTPException(500, f"Database error: {e}").
ExceptDatabaseError(r, e) ==
    /\ tx' = [tx EXCEPT ![r] = NoTx]
    /\ local' = local
    /\ resp' = [resp EXCEPT ![r] =
           HTTPException(HTTP_500_INTERNAL_SERVER_ERROR, "Database error: " \o e)]
    /\ hist' = [hist EXCEPT ![r].cause = e, ![r].db = TRUE]
    /\ pc' = [pc EXCEPT ![r] = "Failed"]
    /\ steps' = [steps EXCEPT ![r] =
           IF pc[r] = "Select" THEN @ \o <<"IdentityResolution", "Failed">>
           ELSE Append(@, "Failed")]

\* The SELECT, UPDATE or INSERT the request is about to run fails at the
\* storage layer with a DatabaseError other than the unique violation.
StoreFaultWith(r, errors) ==
    /\ pc[r] \in {"Select", "Update", "Insert", "Reselect"}
    /\ \E e \in errors : ExceptDatabaseError(r, e)
    /\ UNCHANGED <<users, clock, req, claims, firstId>>

StoreFault(r) == StoreFaultWith(r, StoreErrors)

\* new_user_id = str(uuid.uuid4()); INSERT INTO users ...  The INSERT waits
\* while another transaction holds an uncommitted row with the same unique
\* key; a committed one makes it fail with a DatabaseError, which rolls the
\* transaction back and becomes a 500.
TxInsert(r) ==
    /\ pc[r] = "Insert"
    /\ LET a == Request(r)
           new_user_id == uuid4(r)
           row == InsertedRow(new_user_id, a.provider, a.provider_user_id,
                              EmailArgument(a.email, CHOOSE c \in claims[r] : TRUE),
                              tx[r].now)
       IN /\ ~UniqueViolation(PendingOfOthers(r), row)
          /\ IF UniqueViolation(users, row)
             THEN ExceptDatabaseError(r, "DuplicateIdentity")
             ELSE /\ tx' = [tx EXCEPT ![r].write = {[op |-> "insert", row |-> row]}]
                  /\ local' = [local EXCEPT ![r].new_user_id = new_user_id]
                  /\ pc' = [pc EXCEPT ![r] = "Reselect"]
                  /\ UNCHANGED <<resp, hist, steps>>
    /\ UNCHANGED <<users, clock, req, claims, firstId>>

\* SELECT * FROM users WHERE id = new_user_id, inside the same transaction;
\* 500 "Failed to create user" when the row is not there.
TxReselect(r) ==
    /\ pc[r] = "Reselect"
    /\ LET visible == users \cup {w.row : w \in tx[r].write}
           result == {u \in visible : u.id = local[r].new_user_id}
       IN \E new_user_record \in fetchone(result) :
            IF new_user_record = {}
            THEN /\ tx' = [tx EXCEPT ![r] = NoTx]
                 /\ local' = local
                 /\ resp' = [resp EXCEPT ![r] =
                        HTTPException(HTTP_500_INTERNAL_SERVER_ERROR, "Failed to create user")]
                 /\ hist' = [hist EXCEPT ![r].cause = "NotCreated"]
                 /\ pc' = [pc EXCEPT ![r] = "Failed"]
                 /\ steps' = [steps EXCEPT ![r] = Append(@, "Failed")]
            ELSE /\ local' = [local EXCEPT ![r].user = new_user_record]
                 /\ pc' = [pc EXCEPT ![r] = "Commit"]
                 /\ UNCHANGED <<tx, resp, hist, steps>>
    /\ UNCHANGED <<users, clock, req, claims, firstId>>

\* Mutant: the transaction is closed without its writes reaching the table.
TxCommit_rollback(r) ==
    /\ pc[r] = "Commit"
    /\ hist' = [hist EXCEPT ![r].wrote = (tx[r].write # {})]
    /\ tx' = [tx EXCEPT ![r] = NoTx]
    /\ pc' = [pc EXCEPT ![r] = "SessionIssuance"]
    /\ UNCHANGED <<users, clock, req, claims, local, resp, steps, firstId>>

\* Leaving the transaction block on return: COMMIT.
TxCommit(r) ==
    /\ pc[r] = "Commit"
    /\ LET written == {w.row : w \in tx[r].write}
       IN /\ users' = {u \in users : u.id \notin {w.id : w \in written}} \cup written
          /\ hist' = [hist EXCEPT ![r].wrote = (written # {})]
    /\ tx' = [tx EXCEPT ![r] = NoTx]
    /\ pc' = [pc EXCEPT ![r] = "SessionIssuance"]
    /\ UNCHANGED <<clock, req, claims, local, resp, steps, firstId>>

\* -------------------------------------------------- generate_session_token
DefaultSecret == "your-dev-secret-change-in-production"

\* os.getenv(name, default)
os_getenv(environ, name, default) ==
    IF environ[name] = {} THEN default ELSE CHOOSE v \in environ[name] : TRUE

\* payload = {"user_id": user_id, "exp": utcnow() + timedelta(days=30),
\*            "iat": utcnow()}: exp is computed from a first reading of the
\* clock and iat from a second one.
\* secret_key = os.getenv("JWT_SECRET_KEY", default); the token is the
\* HS256 signature of the payload under secret_key, a function of both.
generate_session_token(user_id, now_exp, now_iat, environ) ==
    [user_id |-> user_id,
     exp     |-> now_exp + timedelta(SessionDays),
     iat     |-> now_iat,
     key     |-> os_getenv(environ, "JWT_SECRET_KEY", DefaultSecret)]

\* session_token = generate_session_token(user["id"]);
\* return UserInDB(user=user, token=session_token)
SessionIssuanceIn(r, environs) ==
    /\ pc[r] = "SessionIssuance"
    /\ LET user == CHOOSE u \in local[r].user : TRUE
           k == <<user.provider, user.provider_user_id>>
       IN /\ \E now_iat \in clock..MaxClock, environ \in environs :
               /\ clock' = now_iat
               /\ hist' = [hist EXCEPT ![r].secret = environ.JWT_SECRET_KEY]
               /\ resp' = [resp EXCEPT ![r] =
                      [status |-> HTTP_200_OK, detail |-> "", user |-> {user},
                       token |-> {generate_session_token(user.id, clock, now_iat, environ)}]]
          /\ firstId' = IF k \in Identities /\ firstId[k] = {}
                        THEN [firstId EXCEPT ![k] = {user.id}]
                        ELSE firstId
    /\ pc' = [pc EXCEPT ![r] = "Completed"]
    /\ steps' = [steps EXCEPT ![r] = @ \o <<"SessionIssuance", "Completed">>]
    /\ UNCHANGED <<users, req, claims, tx, local>>

SessionIssuance(r) == SessionIssuanceIn(r, Environments)

\* generate_session_token or the construction of the response raises: the
\* exception leaves oauth_signin after the transaction block has committed,
\* and the framework answers 500.
IssuanceFault(r) ==
    /\ pc[r] = "SessionIssuance"
    /\ resp' = [resp EXCEPT ![r] =
           HTTPException(HTTP_500_INTERNAL_SERVER_ERROR, "Internal Server Error")]
    /\ hist' = [hist EXCEPT ![r].cause = "SessionIssuance"]
    /\ pc' = [pc EXCEPT ![r] = "Failed"]
    /\ steps' = [steps EXCEPT ![r] = @ \o <<"SessionIssuance", "Failed">>]
    /\ UNCHANGED <<users, clock, req, claims, tx, local, firstId>>

\* ------------------------------------------- db/authenticate.py, db/connect.py
\* What HTTPBearer(auto_error=False) hands to the dependency: None without
\* a bearer Authorization header, else the credentials.
Credentials == {{}, {"session-a"}, {"session-b"}}

\* Answers of the store to POST /api/collections/users/auth-refresh.
PbResponses ==
    {[status_code |-> HTTP_200_OK, record |-> {[id |-> "pbuser1"]}],
     [status_code |-> HTTP_400_BAD_REQUEST, record |-> {}],
     [status_code |-> HTTP_401_UNAUTHORIZED, record |-> {}],
     [status_code |-> HTTP_500_INTERNAL_SERVER_ERROR, record |-> {}]}

\* PocketBaseClient.verify_token: 401 unless the store answers 200.
pb_verify_token(token, response) ==
    IF response.status_code # HTTP_200_OK
    THEN HTTPException(HTTP_401_UNAUTHORIZED, "Invalid or expired token")
    ELSE [status |-> HTTP_200_OK, detail |-> "", user |-> response.record, token |-> {}]

\* get_current_user_required(credentials): reads credentials.credentials
\* without testing credentials; on None that is an AttributeError, which
\* the framework answers with 500.
get_current_user_required(credentials, response) ==
    IF credentials = {}
    THEN HTTPException(HTTP_500_INTERNAL_SERVER_ERROR, "Internal Server Error")
    ELSE pb_verify_token(CHOOSE t \in credentials : TRUE, response)

\* A request to a route that depends on get_current_user_required arrives.
ReceiveProtected(r) ==
    /\ pc[r] = "Idle"
    /\ \E c \in Credentials : req' = [req EXCEPT ![r] = {[credentials |-> c]}]
    /\ pc' = [pc EXCEPT ![r] = "AuthDependency"]
    /\ steps' = [steps EXCEPT ![r] = <<"Received">>]
    /\ UNCHANGED <<users, clock, claims, tx, local, resp, hist, firstId>>

\* The dependency runs; claims[r] keeps the answer of the store, if asked.
AuthDependency(r) ==
    /\ pc[r] = "AuthDependency"
    /\ \E response \in PbResponses :
         LET result == get_current_user_required(Request(r).credentials, response)
         IN /\ resp' = [resp EXCEPT ![r] = result]
            /\ claims' = [claims EXCEPT ![r] =
                   IF Request(r).credentials = {} THEN {} ELSE {response}]
            /\ pc' = [pc EXCEPT ![r] =
                   IF result.status = HTTP_200_OK THEN "Completed" ELSE "Failed"]
    /\ steps' = [steps EXCEPT ![r] = Append(@, "AuthDependency")]
    /\ UNCHANGED <<users, clock, req, tx, local, hist, firstId>>

\* The response has been sent; the slot is free for the next request.
Finish(r) ==
    /\ pc[r] \in {"Completed", "Failed"}
    /\ pc' = [pc EXCEPT ![r] = "Idle"]
    /\ req' = [req EXCEPT ![r] = {}]
    /\ claims' = [claims EXCEPT ![r] = {}]
    /\ local' = [local EXCEPT ![r] = NoLocal]
    /\ resp' = [resp EXCEPT ![r] = NoResp]
    /\ steps' = [steps EXCEPT ![r] = <<>>]
    /\ hist' = [hist EXCEPT ![r] = NoHist]
    /\ UNCHANGED <<users, clock, tx, firstId>>

\* Time passes.
Tick ==
    /\ clock < MaxClock
    /\ clock' = clock + 1
    /\ UNCHANGED <<users, pc, req, claims, tx, local, resp, steps, hist, firstId>>

\* A request step other than the arrival of the request, in surroundings
\* that answer the key fetch with one of outcomes, fail statements with one
\* of errors and hold one of environs.
StepWith(r, outcomes, errors, environs) ==
    \/ ProviderLookup(r)
    \/ TokenVerificationWith(r, outcomes)
    \/ TxSelect(r)
    \/ TxUpdate(r)
    \/ TxInsert(r)
    \/ TxReselect(r)
    \/ TxCommit(r)
    \/ StoreFaultWith(r, errors)
    \/ SessionIssuanceIn(r, environs)
    \/ IssuanceFault(r)

Step(r) == StepWith(r, KeyFetchOutcomes, StoreErrors, Environments)

SteadyStep(r) == StepWith(r, SteadyKeyFetch, SteadyStoreErrors, SteadyEnvironments)

\* NReq requests, each handled once, running concurrently.
Next ==
    \/ \E r \in Reqs : Receive(r)
    \/ \E r \in Reqs : SteadyStep(r)
    \/ Tick

Spec == Init /\ [][Next]_vars

\* NReq concurrent requests, each handled once, with every key-fetch
\* outcome, DatabaseError and environment.
NextVaried ==
    \/ \E r \in Reqs : Receive(r)
    \/ \E r \in Reqs : Step(r)
    \/ Tick

SpecVaried == Init /\ [][NextVaried]_vars

\* One connection handling any sequence of requests, one after the other.
NextSeq ==
    \/ ReceiveAny(1)
    \/ Step(1)
    \/ Finish(1)
    \/ Tick

SpecSeq == Init /\ [][NextSeq]_vars

\* One connection handling any sequence of verifiable sign-ins whose emails
\* vary.
NextEmail ==
    \/ ReceiveEmail(1)
    \/ Step(1)
    \/ Finish(1)
    \/ Tick

SpecEmail == Init /\ [][NextEmail]_vars

\* Requests to the routes guarded by get_current_user_required.
NextGuard ==
    \/ \E r \in Reqs : ReceiveProtected(r)
    \/ \E r \in Reqs : AuthDependency(r)
    \/ \E r \in Reqs : Finish(r)

SpecGuard == Init /\ [][NextGuard]_vars

TypeOK ==
    /\ clock \in 0..MaxClock
    /\ \A r \in Reqs : Cardinality(req[r]) <= 1

\* ================================================================ claims
UsersOf(k) == {u \in users : u.provider = k[1] /\ u.provider_user_id = k[2]}
IdentityOf(r) == <<Request(r).provider, Request(r).provider_user_id>>
Busy(r) == req[r] # {}
Ended(r) == pc[r] \in {"Completed", "Failed"}
Resolved(r) == pc[r] \in {"SessionIssuance", "Completed"}

\* C1: once a sign-in with a verified token has gone through
\* get_or_create_user (it resolved a user, or its insert lost the race and
\* failed), the users table holds exactly one row for its
\* (provider, provider_user_id); no identity ever has more than one row.
C1_OneRowPerIdentity ==
    /\ \A k \in Identities : Cardinality(UsersOf(k)) <= 1
    /\ \A r \in Reqs :
         (Busy(r) /\ claims[r] # {}
             /\ (Resolved(r) \/ hist[r].cause = "DuplicateIdentity"))
            => Cardinality(UsersOf(IdentityOf(r))) = 1

\* Two sign-ins of the same brand-new identity raced: both passed the
\* lookup with "not found", one committed its row, the other ended.
C1_Witness ==
    \E r1, r2 \in Reqs :
       /\ r1 # r2 /\ Busy(r1) /\ Busy(r2)
       /\ IdentityOf(r1) = IdentityOf(r2)
       /\ pc[r1] = "Completed" /\ local[r1].user_record = {}
       /\ pc[r2] = "Failed" /\ local[r2].user_record = {}
       /\ hist[r2].cause = "DuplicateIdentity"
       /\ Cardinality(UsersOf(IdentityOf(r1))) = 1

\* What the handler of slot r was given.
Token(r) == Request(r).identity_token
KnownProvider(r) == Request(r).provider \in DOMAIN OAUTH_CONFIG
Config(r) == OAUTH_CONFIG[Request(r).provider]
SignatureValid(r) == Token(r).wellformed /\ Token(r).sig = "valid"
\* The request was let through to identity resolution or beyond.
PastVerification(r) ==
    pc[r] \in {"Select", "Update", "Insert", "Reselect", "Commit",
               "SessionIssuance", "Completed"}
Rejected401(r) ==
    /\ ~hist[r].db /\ ~hist[r].wrote
    /\ ~PastVerification(r)
    /\ pc[r] = "Failed" => resp[r].status = HTTP_401_UNAUTHORIZED

\* C2: a sign-in whose token is correctly signed but carries an audience
\* other than the provider's client_id is rejected with 401 and neither
\* reads nor writes the users table.
C2_WrongAudienceRejected ==
    \A r \in Reqs :
       (/\ Busy(r) /\ KnownProvider(r) /\ SignatureValid(r)
        /\ Token(r).aud \notin {Absent, Config(r).client_id}
        /\ pc[r] # "TokenVerification" /\ pc[r] # "ProviderLookup")
       => Rejected401(r)

\* C3: a sign-in whose token expired before the current time is rejected,
\* whatever its signature: no claims, no user resolved, no session token.
C3_ExpiredRejected ==
    \A r \in Reqs :
       (/\ Busy(r) /\ KnownProvider(r)
        /\ Token(r).exp < clock
        /\ pc[r] # "TokenVerification" /\ pc[r] # "ProviderLookup")
       => /\ claims[r] = {}
          /\ Rejected401(r)
          /\ resp[r].token = {}

\* C4: aud and iss are essential: a correctly signed token without aud,
\* without iss, or with an iss other than the configured issuer never
\* reaches identity resolution.
C4_AudIssEssential ==
    \A r \in Reqs :
       (/\ Busy(r) /\ KnownProvider(r) /\ SignatureValid(r)
        /\ \/ Token(r).aud = Absent
           \/ Token(r).iss # Config(r).issuer)
       => ~PastVerification(r)

\* C5: a sign-in for an identity that already has a row returns the id the
\* first sign-in of that identity returned; when its transaction commits,
\* the stored updated_at of that row is the transaction's CURRENT_TIMESTAMP
\* (a clock reading of this request), the row is still the only one of the
\* identity and the table has as many rows as before; no step of any
\* request removes a row.
C5_RepeatSignIn ==
    /\ [](\A r \in Reqs :
            (Busy(r) /\ pc[r] = "Completed")
               => \A u \in resp[r].user : firstId[IdentityOf(r)] = {u.id})
    /\ [][\A r \in Reqs :
            /\ \A u \in users : \E v \in users' :
                  /\ v.id = u.id /\ v.provider = u.provider
                  /\ v.provider_user_id = u.provider_user_id
            /\ (pc[r] = "Commit" /\ pc'[r] = "SessionIssuance"
                   /\ local[r].user_record # {})
                => /\ \A old \in local[r].user_record :
                        {v \in users' : v.provider = old.provider
                              /\ v.provider_user_id = old.provider_user_id}
                          = {[old EXCEPT !.updated_at = tx[r].now]}
                   /\ tx[r].now <= clock
                   /\ Cardinality(users') = Cardinality(users)]_vars

\* A repeat sign-in completed and moved updated_at past created_at.
C5_Witness ==
    \E r \in Reqs :
       /\ Busy(r) /\ pc[r] = "Completed" /\ local[r].user_record # {}
       /\ \E u \in UsersOf(IdentityOf(r)) :
             /\ u.updated_at > u.created_at
             /\ firstId[IdentityOf(r)] = {u.id}
             /\ \A v \in resp[r].user : v.id = u.id

\* C6: when a concurrent sign-in of a brand-new identity loses the insert
\* race, the constraint violation is absorbed by one retry of the lookup:
\* the request does not end in a 500, and once ended it has completed with
\* the id of the identity's row.
C6_DuplicateRetried ==
    \A r \in Reqs :
       (Busy(r) /\ Ended(r) /\ claims[r] # {} /\ hist[r].db
          /\ hist[r].cause \notin StoreErrors)
       => /\ hist[r].cause # "DuplicateIdentity"
          /\ resp[r].status # HTTP_500_INTERNAL_SERVER_ERROR
          /\ pc[r] = "Completed"
          /\ {u.id : u \in resp[r].user} = {u.id : u \in UsersOf(IdentityOf(r))}

\* C7: every issued session token has exp exactly 30 days after iat and
\* carries the id of the resolved user.
C7_ExpThirtyDaysAfterIat ==
    \A r \in Reqs :
       \A t \in resp[r].token :
          /\ t.exp - t.iat = timedelta(SessionDays)
          /\ \A u \in resp[r].user : t.user_id = u.id

\* The steps of oauth_signin in their order.
HappyPath ==
    <<"Received", "ProviderLookup", "TokenVerification",
      "IdentityResolution", "SessionIssuance", "Completed">>
IsPrefix(s, t) == Len(s) <= Len(t) /\ \A i \in 1..Len(s) : s[i] = t[i]
Front(s) == SubSeq(s, 1, Len(s) - 1)
Entered(r, step) == \E i \in 1..Len(steps[r]) : steps[r][i] = step

\* C8: the steps a request has entered are a prefix of Received,
\* ProviderLookup, TokenVerification, IdentityResolution, SessionIssuance,
\* Completed, or such a prefix that went through at least one step after
\* Received, followed by Failed as its last entry; so no step runs twice or
\* after Failed.  A request that failed before IdentityResolution touched
\* no row, one that failed before SessionIssuance wrote none, and a failed
\* request carries no session token.
C8_LinearSteps ==
    \A r \in Reqs :
       /\ \/ IsPrefix(steps[r], HappyPath)
          \/ /\ Len(steps[r]) >= 3
             /\ steps[r][Len(steps[r])] = "Failed"
             /\ IsPrefix(Front(steps[r]), HappyPath)
             /\ Len(steps[r]) <= 6
       /\ (pc[r] = "Failed") <=> Entered(r, "Failed")
       /\ (pc[r] = "Completed") <=> Entered(r, "Completed")
       /\ pc[r] = "Failed" =>
             /\ resp[r].token = {} /\ resp[r].user = {}
             /\ ~Entered(r, "SessionIssuance") => ~hist[r].wrote
             /\ ~Entered(r, "IdentityResolution") => ~hist[r].db /\ ~tx[r].active
             /\ ~Entered(r, "TokenVerification") => hist[r].fetch = ""

\* One request went through every step while another failed in its
\* identity resolution.
C8_Witness ==
    \E r1, r2 \in Reqs :
       /\ steps[r1] = HappyPath
       /\ steps[r2] = <<"Received", "ProviderLookup", "TokenVerification",
                        "IdentityResolution", "Failed">>

\* C9: a request naming a provider that is not in the provider table ends
\* in 400 at the provider lookup: no key fetch, no token verification, no
\* access to the users table, no session token; none of its steps changes
\* the users table.
C9_UnsupportedProvider ==
    /\ [](\A r \in Reqs :
            (Busy(r) /\ ~KnownProvider(r) /\ pc[r] # "ProviderLookup")
               => /\ pc[r] = "Failed"
                  /\ resp[r].status = HTTP_400_BAD_REQUEST
                  /\ resp[r].token = {} /\ resp[r].user = {}
                  /\ hist[r].fetch = "" /\ claims[r] = {}
                  /\ ~hist[r].db /\ ~hist[r].wrote /\ ~tx[r].active)
    /\ [][\A r \in Reqs :
            (Busy(r) /\ ~KnownProvider(r) /\ pc'[r] # pc[r]) => users' = users]_vars

\* An unsupported-provider request was answered while the table has a row.
C9_Witness ==
    \E r \in Reqs :
       /\ Busy(r) /\ ~KnownProvider(r) /\ pc[r] = "Failed"
       /\ resp[r].status = HTTP_400_BAD_REQUEST
       /\ users # {}

\* C10: a sign-in whose key fetch failed (network failure or non-success
\* status) ends in 500, not in 401.
C10_KeyFetchFailureIs500 ==
    \A r \in Reqs :
       (Busy(r) /\ pc[r] = "Failed"
          /\ hist[r].fetch \in {"network_error", "bad_status"})
       => resp[r].status = HTTP_500_INTERNAL_SERVER_ERROR

\* The request failed at the storage layer.
StoreFailed(r) ==
    Busy(r) /\ hist[r].cause \in StoreErrors \cup {"DuplicateIdentity"}

\* C11: a sign-in whose SELECT, UPDATE or INSERT failed at the storage
\* layer ends in 500, its transaction leaves no row behind (nothing written,
\* no row carrying the id it generated), and the detail returned to the
\* caller is the same whatever the underlying cause.
C11_StoreErrorOpaque ==
    \A r \in Reqs :
       StoreFailed(r) =>
          /\ pc[r] = "Failed"
          /\ resp[r].status = HTTP_500_INTERNAL_SERVER_ERROR
          /\ ~hist[r].wrote /\ ~tx[r].active
          /\ \A q \in Reqs : StoreFailed(q) => resp[q].detail = resp[r].detail

\* C12: when a sign-in resolved its user and then failed in session
\* issuance, the row it created or updated is in the users table; the same
\* sign-in submitted again after that answer resolves through the lookup to
\* the same id, and the identity still has exactly one row.
C12_IssuanceFailureKeepsUser ==
    \A r1 \in Reqs :
       (Busy(r1) /\ hist[r1].cause = "SessionIssuance") =>
          /\ pc[r1] = "Failed" /\ hist[r1].wrote
          /\ \A u \in local[r1].user : \E v \in UsersOf(IdentityOf(r1)) : v.id = u.id
          /\ \A r2 \in Reqs :
                (Busy(r2) /\ r1 \in hist[r2].after /\ req[r2] = req[r1] /\ Resolved(r2))
                => /\ local[r2].user_record # {}
                   /\ {u.id : u \in local[r2].user} = {u.id : u \in local[r1].user}
                   /\ Cardinality(UsersOf(IdentityOf(r1))) = 1

\* A first sign-in inserted its row and failed in session issuance; its
\* re-submission completed.
C12_Witness ==
    \E r1, r2 \in Reqs :
       /\ Busy(r1) /\ hist[r1].cause = "SessionIssuance" /\ local[r1].user_record = {}
       /\ Busy(r2) /\ r1 \in hist[r2].after /\ req[r2] = req[r1]
       /\ pc[r2] = "Completed"
       /\ \A u \in resp[r2].user : u \in local[r1].user

\* C13: no session token is issued while JWT_SECRET_KEY is unset; no token
\* is signed with the built-in default secret.
C13_NoDefaultSecret ==
    \A r \in Reqs :
       \A t \in resp[r].token :
          /\ hist[r].secret # {}
          /\ t.key # DefaultSecret

\* C14: two successive successful sign-ins of the same identity (the second
\* received after the first was answered) return different session tokens.
C14_TokensDiffer ==
    \A r1, r2 \in Reqs :
       (/\ Busy(r1) /\ Busy(r2) /\ r1 \in hist[r2].after
        /\ pc[r1] = "Completed" /\ pc[r2] = "Completed"
        /\ IdentityOf(r1) = IdentityOf(r2))
       => resp[r1].token # resp[r2].token

\* The row a request is inserting or has inserted: its pending INSERT, or
\* the row returned to it by the re-read.
InsertedBy(r) ==
    {w.row : w \in {x \in tx[r].write : x.op = "insert"}}
       \cup (IF local[r].user_record = {} THEN local[r].user ELSE {})

\* C15 as stated: the email given to identity resolution is the email of
\* the request whenever the request carries one (anything but None), the
\* email claim of the token when it carries none, None when neither has one.
C15_RequestEmailPreferred ==
    \A r \in Reqs :
       \A row \in InsertedBy(r) :
          row.email = IF Request(r).email # NoneStr THEN Request(r).email
                      ELSE Token(r).email

\* C15 amended: the email given to identity resolution is the email of the
\* request whenever that is a non-empty string; when the request's email is
\* None or the empty string it is the email claim of the verified token,
\* None when the token has none.
C15_NonEmptyRequestEmailPreferred ==
    \A r \in Reqs :
       \A row \in InsertedBy(r) :
          /\ Request(r).email \notin {NoneStr, ""} => row.email = Request(r).email
          /\ Request(r).email \in {NoneStr, ""} =>
                \A c \in claims[r] : row.email = c.email

\* A sign-in with both emails present created its user with the request's.
C15_Witness ==
    \E r \in Reqs :
       /\ Busy(r) /\ pc[r] = "Completed" /\ local[r].user_record = {}
       /\ Request(r).email = "req@example.com"
       /\ Token(r).email = "tok@example.com"
       /\ \A u \in resp[r].user : u.email = "req@example.com"

\* C16: get_current_user_required answers 401 to every request that is not
\* authenticated: the store rejected its bearer token, or it carried no
\* credentials at all.
C16_Unauthenticated401 ==
    \A r \in Reqs :
       (/\ Busy(r) /\ Ended(r)
        /\ \/ Request(r).credentials = {}
           \/ \E a \in claims[r] : a.status_code # HTTP_200_OK)
       => resp[r].status = HTTP_401_UNAUTHORIZED

\* C17: when a sign-in that found no row for its identity commits, the table
\* gains exactly one row; its id is carried by no row that was there, its
\* provider and provider_user_id are those of the request, its email is the
\* email argument, created_at equals updated_at; the row re-read after the
\* insert is that row and is the user of the response.
C17_FirstSignInInserts ==
    /\ [][\A r \in Reqs :
            (pc[r] = "Commit" /\ pc'[r] = "SessionIssuance" /\ local[r].user_record = {})
            => \E row \in users' :
                  /\ row \notin users /\ users' = users \cup {row}
                  /\ row.id \notin {u.id : u \in users}
                  /\ row.provider = Request(r).provider
                  /\ row.provider_user_id = Request(r).provider_user_id
                  /\ row.email = IF Request(r).email \notin {NoneStr, ""}
                                 THEN Request(r).email ELSE Token(r).email
                  /\ row.created_at = row.updated_at
                  /\ local[r].user = {row}]_vars
    /\ [](\A r \in Reqs :
            (Busy(r) /\ pc[r] = "Completed" /\ local[r].user_record = {})
               => resp[r].user = local[r].user /\ resp[r].user # {})

\* A first sign-in of an identity completed while the other identity had
\* its row already, and stored the email of the request.
C17_Witness ==
    \E r \in Reqs :
       /\ Busy(r) /\ pc[r] = "Completed" /\ local[r].user_record = {}
       /\ Cardinality(users) = 2
       /\ \E u \in resp[r].user : u \in users /\ u.email = "req@example.com"

\* C18: the user returned by a repeat sign-in is the row as stored after its
\* transaction committed, with the refreshed updated_at.
C18_ReturnsRefreshedRow ==
    \A r \in Reqs :
       (Busy(r) /\ pc[r] = "Completed" /\ local[r].user_record # {})
       => \A u \in resp[r].user :
             \E v \in users : v.id = u.id /\ v.updated_at = u.updated_at

\* C19: a sign-in only resolves, creates or gets a session for the user
\* whose provider_user_id is the subject of its verified token.
C19_SubjectMatches ==
    \A r \in Reqs :
       (Busy(r) /\ KnownProvider(r))
       => /\ \A row \in InsertedBy(r) : row.provider_user_id = Token(r).sub
          /\ \A u \in resp[r].user : u.provider_user_id = Token(r).sub

\* C20: the steps of a sign-in that found a row for its identity change
\* nothing in the users table but the updated_at of that row.
C20_RepeatSignInFrame ==
    [][\A r \in Reqs :
         (Busy(r) /\ local[r].user_record # {} /\ pc'[r] # pc[r])
         => \/ users' = users
            \/ \E cur \in users :
                  /\ \A old \in local[r].user_record : cur.id = old.id
                  /\ users' = (users \ {cur}) \cup {[cur EXCEPT !.updated_at = tx[r].now]}]_vars

\* A repeat sign-in that supplied an email other than the stored one
\* completed: the row kept its email and its created_at, the other row is
\* there.
C20_Witness ==
    \E r \in Reqs :
       /\ Busy(r) /\ pc[r] = "Completed" /\ local[r].user_record # {}
       /\ Request(r).email = "req@example.com"
       /\ Cardinality(users) = 2
       /\ \E u \in UsersOf(IdentityOf(r)) :
             /\ u.email # "req@example.com"
             /\ u.updated_at > u.created_at
             /\ \A old \in local[r].user_record :
                   u.id = old.id /\ u.email = old.email /\ u.created_at = old.created_at

====
